---- MODULE Spec2Model ----
(***************************************************************************)
(* The embedded SSH terminal of dogoctl (src/main.go): the Bubble Tea      *)
(* model's sshTerminal* fields, the PTY reader goroutine, the output       *)
(* channel, the poll commands, and the Update / View callbacks.            *)
(*                                                                         *)
(* One step of the UI loop is one Update call followed by the View call    *)
(* Bubble Tea makes on the returned model.  The goroutines (the            *)
(* startSSHTerminal command, the reader, the tick of waitForSSHOutput)     *)
(* take their own steps and interleave freely with the UI loop.            *)
(***************************************************************************)
EXTENDS Integers, Sequences, FiniteSets, TLC

VARIABLES
    m,              \* the model struct: width, height and the sshTerminal* fields
    sshOutputChan,  \* m.sshOutputChan, the buffered channel shared with the readers
    os,             \* per session: the child process and PTY the OS holds for it
    reader,         \* per session: position of the reader goroutine
    cmds,           \* startSSHTerminal commands returned by Update and not yet run
    inflight,       \* messages on their way to Update (command results)
    ticks,          \* number of time.Time poll results on their way to Update
    polls,          \* number of waitForSSHOutput ticks scheduled and not yet fired
    nextSid,        \* the next session to be started
    obs             \* what the last step did: handler, bytes written, frame, ...

vars == <<m, sshOutputChan, os, reader, cmds, inflight, ticks, polls, nextSid, obs>>

-----------------------------------------------------------------------------
(* Bounds of the model *)

\* sessions the user starts in one run
MaxSessions == 2
\* chunks of output one reader reads from its PTY
MaxReads == 1
\* capacity of sshOutputChan (100 in the program), scaled down so that a
\* reader finds it full
ChanCap == 1
\* capacity of sshOutputChan where the reader must be able to finish
LiveCap == 2

\* length of the text the engine answers to GetDisplayWithColors
MaxDisplay == 8

(* Program constants *)

\* getTopPadding(): the default for terminals other than iTerm
TopPadding == 1
\* chrome rows subtracted from the window height
ChromeRows == 6
\* chrome columns subtracted from the window width
ChromeCols == 4
MinRows == 5
MinCols == 40
\* size given to pty.StartWithSize
StartRows == 24
StartCols == 80
\* initialModel
InitWidth == 120
InitHeight == 40
\* floors and fallbacks of the WindowSizeMsg handler
MinWidth == 40
MinHeight == 10
FallbackWidth == 120
FallbackHeight == 40
\* uint16 conversion of pty.Winsize
U16 == 65536
\* the separator of strings.Split and strings.Join in renderSSHTerminal: "\n"
NL == 10

Sessions == 1..MaxSessions
Nil == 0

\* host window sizes the terminal reports, <<width, height>>: one below the
\* floors, and one that makes the handler fall back to 120x40
WindowSizes == {<<42, 10>>, <<0, 0>>}

\* keys pressed while the terminal view is active; y and n are ordinary
\* printable keys while no confirmation is pending
Keys == {"esc", "y", "n"}

Max(a, b) == IF a > b THEN a ELSE b

-----------------------------------------------------------------------------
(* Key events.  A tea.KeyMsg is named by what msg.String() answers for it; a  *)
(* rune outside ASCII is named by its code point.  KeyType is msg.Type and   *)
(* Runes is msg.Runes of the event.                                          *)

\* tea.KeyType of the control keys: the C0 code the terminal sends
KeyCtrlA == 1
KeyCtrlC == 3
KeyCtrlD == 4
KeyTab == 9
KeyEnter == 13
KeyCtrlZ == 26
KeyEsc == 27
KeyBackspace == 127
\* the types of the other keys are numbered downwards from KeyRunes
KeyRunes == -1

\* Ctrl+A .. Ctrl+Z in the order of their types; KeyTab is KeyCtrlI and
\* KeyEnter is KeyCtrlM
CtrlKeys ==
    <<"ctrl+a", "ctrl+b", "ctrl+c", "ctrl+d", "ctrl+e", "ctrl+f", "ctrl+g",
      "ctrl+h", "tab", "ctrl+j", "ctrl+k", "ctrl+l", "enter", "ctrl+n",
      "ctrl+o", "ctrl+p", "ctrl+q", "ctrl+r", "ctrl+s", "ctrl+t", "ctrl+u",
      "ctrl+v", "ctrl+w", "ctrl+x", "ctrl+y", "ctrl+z">>

FunctionKeys ==
    <<"f1", "f2", "f3", "f4", "f5", "f6", "f7", "f8", "f9", "f10", "f11", "f12">>

\* keys whose type lies below KeyRunes
NamedKeys ==
    <<"up", "down", "right", "left", "shift+tab", "home", "end", "pgup",
      "pgdown", "delete", "insert", " ">> \o FunctionKeys

\* events of type KeyRunes: one rune, alt+x with the Alt flag set
RuneKeys == {"y", "n", "a", "U+00E9", "U+20AC", "U+1F600", "alt+x"}

\* every key event of the model
AllKeys ==
    {CtrlKeys[i] : i \in DOMAIN CtrlKeys} \cup {NamedKeys[i] : i \in DOMAIN NamedKeys}
        \cup {"ctrl+@", "ctrl+]", "esc", "backspace"} \cup RuneKeys

\* msg.Type
KeyType(key) ==
    IF \E i \in DOMAIN CtrlKeys : CtrlKeys[i] = key
    THEN KeyCtrlA - 1 + CHOOSE i \in DOMAIN CtrlKeys : CtrlKeys[i] = key
    ELSE IF \E i \in DOMAIN NamedKeys : NamedKeys[i] = key
    THEN KeyRunes - CHOOSE i \in DOMAIN NamedKeys : NamedKeys[i] = key
    ELSE CASE key = "ctrl+@" -> KeyCtrlA - 1
           [] key = "esc" -> KeyEsc
           [] key = "ctrl+]" -> KeyEsc + 2
           [] key = "backspace" -> KeyBackspace
           [] OTHER -> KeyRunes

\* msg.Runes
Runes(key) ==
    CASE key = "y" -> <<121>>
      [] key = "n" -> <<110>>
      [] key = "a" -> <<97>>
      [] key = "U+00E9" -> <<233>>
      [] key = "U+20AC" -> <<8364>>
      [] key = "U+1F600" -> <<128512>>
      [] key = "alt+x" -> <<120>>
      [] key = " " -> <<32>>
      [] OTHER -> <<>>

-----------------------------------------------------------------------------
(* Messages.  sid and k are tags the handlers never read: sid is the session *)
(* whose goroutine produced the message, k the number of the chunk           *)
(* (0: the "[Connection closed]" notice).                                    *)

OutputMsg(s, k) == [type |-> "output", sid |-> s, k |-> k]
ClosedMsg(s) == [type |-> "closed", sid |-> s, k |-> 0]
\* errMsg sent by the reader on a read error
ReadErrMsg(s) == [type |-> "err", sid |-> s, k |-> 0]
\* errMsg returned by startSSHTerminal when pty.StartWithSize fails
StartErrMsg(s) == [type |-> "err", sid |-> s, k |-> 1]
\* errMsg of an unrelated command (loadDroplets, ...)
ApiErrMsg == [type |-> "err", sid |-> Nil, k |-> 2]
StartedMsg(s) == [type |-> "started", sid |-> s, k |-> 0]

NoEmulator == [sid |-> Nil, cols |-> 0, rows |-> 0, fed |-> <<>>]
\* A droplet: its status and the types of its Networks.V4 entries, in order.
\* An address is named by the type of its entry.
NoDroplet == [status |-> "", v4 |-> <<>>]
Droplets ==
    {[status |-> st, v4 |-> n] :
        st \in {"active", "off"},
        n \in {<<>>, <<"public">>, <<"private">>, <<"public", "private">>}}
\* an active droplet with a public address
OneDroplet == {[status |-> "active", v4 |-> <<"public">>]}
\* keys of the address menu
MenuKeys == {"1", "2", "esc"}

NoFrame == [kind |-> "none", sid |-> Nil, engine |-> <<>>, pty |-> <<>>]

NoOs == [st |-> "none", rows |-> 0, cols |-> 0, kills |-> 0, closes |-> 0,
         exited |-> FALSE]

\* step: the handler or goroutine that took the step; key, msg: its input;
\* before: active / confirm-pending / PTY stored when the handler began;
\* wrote: bytes written to the PTY; ptySent: size handed to pty.Setsize;
\* sched: polls scheduled; tore: closeSSHTerminal ran; err: the cause
\* assigned to m.err (no code of the terminal reads m.err, so the field itself
\* is not kept); frame: what View drew; droplet: the row key s was pressed on.
FreshObs(step) ==
    [step |-> step, key |-> "", msg |-> Nil, before |-> <<FALSE, FALSE, Nil>>,
     wrote |-> <<>>, ptySent |-> <<>>, sched |-> 0, tore |-> FALSE,
     err |-> "", frame |-> NoFrame, droplet |-> NoDroplet]

\* The part of the state the UI-loop code reads and writes.
World == [m |-> m, chan |-> sshOutputChan, os |-> os, obs |-> obs]

Commit(w) ==
    /\ m' = w.m
    /\ sshOutputChan' = w.chan
    /\ os' = w.os
    /\ obs' = w.obs

-----------------------------------------------------------------------------
(* Geometry *)

availableRows(h) == Max(h - TopPadding - ChromeRows, MinRows)
availableCols(w) == Max(w - ChromeCols, MinCols)

\* renderSSHTerminal: displayCols has no floor
displayCols(w) == w - ChromeCols
displayRows(h) == Max(h - TopPadding - ChromeRows, MinRows)

\* pty.Setsize(f, &pty.Winsize{Rows: uint16(rows), Cols: uint16(cols)}); the
\* error is dropped by every caller.  ok: whether the OS accepts the size.
Setsize(w, s, rows, cols, ok) ==
    [w EXCEPT
        !.os[s].rows = IF ok /\ w.os[s].st = "open" THEN rows % U16 ELSE @,
        !.os[s].cols = IF ok /\ w.os[s].st = "open" THEN cols % U16 ELSE @,
        !.obs.ptySent = <<rows % U16, cols % U16>>]

\* TerminalBuffer.Resize(cols, rows)
EmulatorResize(w, cols, rows) ==
    [w EXCEPT !.m.sshTerminalEmulator.cols = cols,
              !.m.sshTerminalEmulator.rows = rows]

-----------------------------------------------------------------------------
(* Session Lifecycle Manager *)

\* closeSSHTerminal with the line m.sshTerminalCmd = nil left out
closeSSHTerminal_KeepsCmd(w) ==
    LET c == w.m.sshTerminalCmd
        p == w.m.sshTerminalPTY
        e == w.m.sshTerminalEmulator.sid
        w1 == IF c # Nil THEN [w EXCEPT !.os[c].kills = @ + 1] ELSE w
        w2 == IF p # Nil
              THEN [w1 EXCEPT !.os[p].closes = @ + 1, !.os[p].st = "closed",
                               !.os[p].rows = 0, !.os[p].cols = 0]
              ELSE w1
        w3 == IF e # Nil THEN [w2 EXCEPT !.os[e].exited = TRUE] ELSE w2
    IN  [w3 EXCEPT
            !.m.sshTerminalActive = FALSE,
            !.m.sshTerminalEmulator = NoEmulator,
            !.m.sshTerminalParser = FALSE,
            !.m.sshTerminalPTY = Nil,
            !.m.sshTerminalHost = Nil,
            !.m.sshTerminalIP = Nil,
            !.m.sshTerminalConfirmExit = FALSE,
            !.chan = <<>>,
            !.obs.tore = TRUE]

\* closeSSHTerminal.  exited is a history flag of the session whose view is
\* being closed (the session the emulator was created for).
closeSSHTerminal(w) ==
    LET c == w.m.sshTerminalCmd
        p == w.m.sshTerminalPTY
        e == w.m.sshTerminalEmulator.sid
        w1 == IF c # Nil THEN [w EXCEPT !.os[c].kills = @ + 1] ELSE w
        w2 == IF p # Nil
              THEN [w1 EXCEPT !.os[p].closes = @ + 1, !.os[p].st = "closed",
                               !.os[p].rows = 0, !.os[p].cols = 0]
              ELSE w1
        w3 == IF e # Nil THEN [w2 EXCEPT !.os[e].exited = TRUE] ELSE w2
    IN  [w3 EXCEPT
            !.m.sshTerminalActive = FALSE,
            !.m.sshTerminalEmulator = NoEmulator,
            !.m.sshTerminalParser = FALSE,
            !.m.sshTerminalPTY = Nil,
            !.m.sshTerminalCmd = Nil,
            !.m.sshTerminalHost = Nil,
            !.m.sshTerminalIP = Nil,
            !.m.sshTerminalConfirmExit = FALSE,
            !.chan = <<>>,
            !.obs.tore = TRUE]

\* writeToPTY that records a failed write and leaves the session as it is
writeToPTY_KeepsSession(w, b, ok) ==
    IF w.m.sshTerminalPTY = Nil THEN w
    ELSE IF ok THEN [w EXCEPT !.obs.wrote = b]
    ELSE [w EXCEPT !.obs.err = "write"]

\* writeToPTY.  ok: whether the OS accepts the write.
writeToPTY(w, b, ok) ==
    IF w.m.sshTerminalPTY = Nil THEN w
    ELSE IF ok THEN [w EXCEPT !.obs.wrote = b]
    ELSE closeSSHTerminal([w EXCEPT !.obs.err = "write"])

\* Go's []byte(string(r)) for one rune: UTF-8, truncated to the low byte
Utf8_Latin1(r) == <<r % 256>>

\* Go's []byte(string(r)) for one rune r: its UTF-8 encoding; a surrogate or a
\* value beyond U+10FFFF becomes U+FFFD
Utf8(r) ==
    IF r < 0 \/ r \in 55296..57343 \/ r > 1114111 THEN <<239, 191, 189>>
    ELSE IF r < 128 THEN <<r>>
    ELSE IF r < 2048 THEN <<192 + (r \div 64), 128 + (r % 64)>>
    ELSE IF r < 65536
    THEN <<224 + (r \div 4096), 128 + ((r \div 64) % 64), 128 + (r % 64)>>
    ELSE <<240 + (r \div 262144), 128 + ((r \div 4096) % 64),
           128 + ((r \div 64) % 64), 128 + (r % 64)>>

\* []byte(string(msg.Runes))
RECURSIVE StringBytes(_)
StringBytes(runes) ==
    IF runes = <<>> THEN <<>> ELSE Utf8(Head(runes)) \o StringBytes(Tail(runes))

\* getANSISequence that answers the arrows in application-cursor form (ESC O x)
getANSISequence_AppCursor(t) ==
    CASE t = KeyType("up") -> <<27, 79, 65>>
      [] t = KeyType("down") -> <<27, 79, 66>>
      [] t = KeyType("right") -> <<27, 79, 67>>
      [] t = KeyType("left") -> <<27, 79, 68>>
      [] t = KeyType("home") -> <<27, 91, 72>>
      [] t = KeyType("end") -> <<27, 91, 70>>
      [] t = KeyType("pgup") -> <<27, 91, 53, 126>>
      [] t = KeyType("pgdown") -> <<27, 91, 54, 126>>
      [] t = KeyType("delete") -> <<27, 91, 51, 126>>
      [] OTHER -> <<>>

\* getANSISequence
getANSISequence(t) ==
    CASE t = KeyType("up") -> <<27, 91, 65>>
      [] t = KeyType("down") -> <<27, 91, 66>>
      [] t = KeyType("right") -> <<27, 91, 67>>
      [] t = KeyType("left") -> <<27, 91, 68>>
      [] t = KeyType("home") -> <<27, 91, 72>>
      [] t = KeyType("end") -> <<27, 91, 70>>
      [] t = KeyType("pgup") -> <<27, 91, 53, 126>>
      [] t = KeyType("pgdown") -> <<27, 91, 54, 126>>
      [] t = KeyType("delete") -> <<27, 91, 51, 126>>
      [] OTHER -> <<>>

\* getFunctionKeySequence
getFunctionKeySequence(t) ==
    CASE t = KeyType("f1") -> <<27, 79, 80>>
      [] t = KeyType("f2") -> <<27, 79, 81>>
      [] t = KeyType("f3") -> <<27, 79, 82>>
      [] t = KeyType("f4") -> <<27, 79, 83>>
      [] t = KeyType("f5") -> <<27, 91, 49, 53, 126>>
      [] t = KeyType("f6") -> <<27, 91, 49, 55, 126>>
      [] t = KeyType("f7") -> <<27, 91, 49, 56, 126>>
      [] t = KeyType("f8") -> <<27, 91, 49, 57, 126>>
      [] t = KeyType("f9") -> <<27, 91, 50, 48, 126>>
      [] t = KeyType("f10") -> <<27, 91, 50, 49, 126>>
      [] t = KeyType("f11") -> <<27, 91, 50, 51, 126>>
      [] t = KeyType("f12") -> <<27, 91, 50, 52, 126>>
      [] OTHER -> <<>>

ArrowTypes == {KeyType("up"), KeyType("down"), KeyType("left"), KeyType("right")}
FunctionTypes == {KeyType(FunctionKeys[i]) : i \in DOMAIN FunctionKeys}

\* The switch of handleSSHInput that turns a key into bytes.  In its default
\* case the branch len(keyStr) == 1 takes no event: an event without runes
\* has a name of more than one byte.
keyBytes(key) ==
    LET t == KeyType(key)
    IN  CASE t = KeyEnter -> <<13>>
          [] t = KeyBackspace -> <<127>>
          [] t = KeyTab -> <<9>>
          [] t = KeyType(" ") -> <<32>>
          [] t = KeyCtrlC -> <<3>>
          [] t = KeyCtrlD -> <<4>>
          [] t = KeyCtrlZ -> <<26>>
          [] t \in ArrowTypes -> getANSISequence(t)
          [] t = KeyType("delete") -> getANSISequence(t)
          [] t \in FunctionTypes -> getFunctionKeySequence(t)
          [] OTHER ->
                IF Len(Runes(key)) > 0 THEN StringBytes(Runes(key))
                ELSE IF t >= KeyCtrlA /\ t <= KeyCtrlZ THEN <<(t - KeyCtrlA + 1) % 256>>
                ELSE <<>>

\* handleSSHInput without the Esc case: Escape is forwarded as the byte 0x1B
handleSSHInput_ForwardsEsc(w, key, ok) ==
    IF w.m.sshTerminalPTY = Nil THEN w
    ELSE IF key = "esc" THEN writeToPTY(w, <<27>>, ok)
    ELSE IF Len(keyBytes(key)) > 0 THEN writeToPTY(w, keyBytes(key), ok)
    ELSE w

\* handleSSHInput
handleSSHInput(w, key, ok) ==
    IF key = "esc"
    THEN [w EXCEPT !.m.sshTerminalConfirmExit = ~w.m.sshTerminalConfirmExit]
    ELSE IF w.m.sshTerminalPTY = Nil THEN w
    ELSE IF Len(keyBytes(key)) > 0 THEN writeToPTY(w, keyBytes(key), ok)
    ELSE w

\* updateSSHTerminal whose cancel case only handles n and N: Esc falls to the
\* default case and the confirmation stays pending
updateSSHTerminal_EscNotCancel(w, key, ok) ==
    IF w.m.sshTerminalConfirmExit
    THEN CASE key = "y" ->
                closeSSHTerminal([w EXCEPT !.m.sshTerminalConfirmExit = FALSE])
           [] key = "n" ->
                [w EXCEPT !.m.sshTerminalConfirmExit = FALSE]
           [] OTHER -> w
    ELSE handleSSHInput(w, key, ok)

\* updateSSHTerminal
updateSSHTerminal(w, key, ok) ==
    IF w.m.sshTerminalConfirmExit
    THEN CASE key = "y" ->
                closeSSHTerminal([w EXCEPT !.m.sshTerminalConfirmExit = FALSE])
           [] key \in {"n", "esc"} ->
                [w EXCEPT !.m.sshTerminalConfirmExit = FALSE]
           [] OTHER -> w
    ELSE handleSSHInput(w, key, ok)

-----------------------------------------------------------------------------
(* Viewport Renderer *)

\* strings.Split(s, "\n"); a text is a sequence of code points
RECURSIVE Split(_)
Split(s) ==
    IF s = <<>> THEN << <<>> >>
    ELSE IF Head(s) = NL THEN << <<>> >> \o Split(Tail(s))
    ELSE LET r == Split(Tail(s)) IN << <<Head(s)>> \o Head(r) >> \o Tail(r)

\* strings.Join(lines, "\n")
RECURSIVE Join(_)
Join(lines) ==
    IF lines = <<>> THEN <<>>
    ELSE IF Len(lines) = 1 THEN lines[1]
    ELSE lines[1] \o <<NL>> \o Join(Tail(lines))

\* the body of renderSSHTerminal's frame that keeps the first rows lines
frameBody_KeepsFirst(display, rows) ==
    LET lines0 == Split(display)
        lines1 == IF Len(lines0) > 0 /\ lines0[Len(lines0)] = <<>>
                  THEN SubSeq(lines0, 1, Len(lines0) - 1) ELSE lines0
        lines2 == IF Len(lines1) < rows
                  THEN lines1 \o [i \in 1..(rows - Len(lines1)) |-> <<>>]
                  ELSE IF Len(lines1) > rows
                  THEN SubSeq(lines1, 1, rows)
                  ELSE lines1
    IN  Join(lines2)

\* renderSSHTerminal, lines 3735-3762: displayContent made of what the
\* emulator answered to GetDisplayWithColors
frameBody(display, rows) ==
    LET lines0 == Split(display)
        lines1 == IF Len(lines0) > 0 /\ lines0[Len(lines0)] = <<>>
                  THEN SubSeq(lines0, 1, Len(lines0) - 1) ELSE lines0
        lines2 == IF Len(lines1) < rows
                  THEN lines1 \o [i \in 1..(rows - Len(lines1)) |-> <<>>]
                  ELSE IF Len(lines1) > rows
                  THEN SubSeq(lines1, Len(lines1) - rows + 1, Len(lines1))
                  ELSE lines1
    IN  Join(lines2)

\* The size of the PTY the OS holds for session s, <<>> when it has none.
OsSize(w, s) ==
    IF s # Nil /\ w.os[s].st # "none" THEN <<w.os[s].rows, w.os[s].cols>> ELSE <<>>

\* renderSSHTerminal.  The emulator is held by pointer, so the Resize made
\* here on the receiver's copy of the model is kept.
renderSSHTerminal(w) ==
    LET e == w.m.sshTerminalEmulator
        dc == displayCols(w.m.width)
        dr == displayRows(w.m.height)
    IN  IF w.m.sshTerminalConfirmExit
        THEN [w EXCEPT !.obs.frame = [NoFrame EXCEPT !.kind = "confirm"]]
        ELSE IF e # NoEmulator
        THEN LET w1 == IF e.cols # dc \/ e.rows # dr
                       THEN EmulatorResize(w, dc, dr) ELSE w
             IN [w1 EXCEPT !.obs.frame =
                    [kind |-> "terminal", sid |-> e.sid,
                     engine |-> <<w1.m.sshTerminalEmulator.rows,
                                  w1.m.sshTerminalEmulator.cols>>,
                     pty |-> OsSize(w1, e.sid)]]
        ELSE [w EXCEPT !.obs.frame = [NoFrame EXCEPT !.kind = "connecting"]]

\* View
View(w) ==
    IF w.m.sshTerminalActive THEN renderSSHTerminal(w)
    ELSE [w EXCEPT !.obs.frame = [NoFrame EXCEPT !.kind = "other"]]

-----------------------------------------------------------------------------
(* Update *)

\* startSSHTerminalView(ip, name) for the droplet of session s
startSSHTerminalView(w, s) ==
    [w EXCEPT
        !.m.sshTerminalActive = TRUE,
        !.m.sshTerminalHost = s,
        !.m.sshTerminalIP = s,
        !.m.sshTerminalEmulator =
            [sid |-> s, cols |-> availableCols(w.m.width),
             rows |-> availableRows(w.m.height), fed |-> <<>>],
        !.m.sshTerminalParser = TRUE]

\* getPublicIP: the first public entry, else the first entry of any type
getPublicIP(d) ==
    IF \E i \in 1..Len(d.v4) : d.v4[i] = "public" THEN "public"
    ELSE IF Len(d.v4) > 0 THEN d.v4[1] ELSE ""

\* getPrivateIP: the first private entry
getPrivateIP(d) ==
    IF \E i \in 1..Len(d.v4) : d.v4[i] = "private" THEN "private" ELSE ""

\* case "s" with the check of d.Status left out
keyS_AnyStatus(w, d, s) ==
    LET publicIP == getPublicIP(d)
        privateIP == getPrivateIP(d)
    IN  IF publicIP = "" /\ privateIP = ""
        THEN [w EXCEPT !.obs.err = "has no IP address"]
        ELSE IF publicIP # "" /\ privateIP # ""
        THEN [w EXCEPT !.m.selectingSSHIP = TRUE, !.m.selectedDroplet = d]
        ELSE startSSHTerminalView(w, s)

\* case "s" on droplet d (droplet list, and the details view alike); s is the
\* session a start would open
keyS(w, d, s) ==
    LET publicIP == getPublicIP(d)
        privateIP == getPrivateIP(d)
    IN  IF d.status # "active"
        THEN [w EXCEPT !.obs.err = "is not active"]
        ELSE IF publicIP = "" /\ privateIP = ""
        THEN [w EXCEPT !.obs.err = "has no IP address"]
        ELSE IF publicIP # "" /\ privateIP # ""
        THEN [w EXCEPT !.m.selectingSSHIP = TRUE, !.m.selectedDroplet = d]
        ELSE startSSHTerminalView(w, s)

\* updateSSHIPSelection
updateSSHIPSelection(w, key, s) ==
    LET d == w.m.selectedDroplet
        closed == [w EXCEPT !.m.selectingSSHIP = FALSE,
                            !.m.selectedDroplet = NoDroplet]
    IN  CASE key = "1" ->
                IF getPublicIP(d) # "" THEN startSSHTerminalView(closed, s) ELSE w
          [] key = "2" ->
                IF getPrivateIP(d) # "" THEN startSSHTerminalView(closed, s) ELSE w
          [] key = "esc" -> closed
          [] OTHER -> w

\* case errMsg
UpdateErrMsg(w, msg) ==
    LET w1 == [w EXCEPT !.obs.err = IF msg.k = 0 THEN "read"
                                  ELSE IF msg.k = 1 THEN "start" ELSE "api"]
    IN  IF w1.m.sshTerminalActive THEN closeSSHTerminal(w1) ELSE w1

\* case sshTerminalStartedMsg
UpdateStarted(w, s, ok) ==
    LET w1 == [w EXCEPT !.m.sshTerminalPTY = s, !.m.sshTerminalCmd = s,
                        !.m.sshTerminalHost = s, !.m.sshTerminalIP = s]
        rows == availableRows(w.m.height)
        cols == availableCols(w.m.width)
        w2 == Setsize(w1, s, rows, cols, ok)
        w3 == IF w2.m.sshTerminalEmulator # NoEmulator
              THEN EmulatorResize(w2, cols, rows) ELSE w2
    IN  [w3 EXCEPT !.obs.sched = 1]

\* case sshTerminalOutputMsg
UpdateOutput(w, msg) ==
    LET w1 == IF w.m.sshTerminalEmulator # NoEmulator /\ w.m.sshTerminalParser
              THEN [w EXCEPT !.m.sshTerminalEmulator.fed =
                                Append(@, <<msg.sid, msg.k>>)]
              ELSE w
    IN  [w1 EXCEPT !.obs.sched = 1]

\* case sshTerminalClosedMsg that goes on polling, as the output case does
UpdateClosed_KeepsPolling(w) == [closeSSHTerminal(w) EXCEPT !.obs.sched = 1]

\* case sshTerminalClosedMsg
UpdateClosed(w) == closeSSHTerminal(w)

\* case time.Time that polls on only while no exit confirmation is pending
UpdateTick_StopsOnConfirm(w) ==
    IF w.m.sshTerminalActive /\ w.m.sshTerminalPTY # Nil
       /\ ~w.m.sshTerminalConfirmExit
    THEN [w EXCEPT !.obs.sched = 1] ELSE w

\* case time.Time
UpdateTick(w) ==
    IF w.m.sshTerminalActive /\ w.m.sshTerminalPTY # Nil
    THEN [w EXCEPT !.obs.sched = 1] ELSE w

\* case tea.WindowSizeMsg
UpdateWindowSize(w, width, height, ok) ==
    LET w0 == IF width <= 0 THEN FallbackWidth ELSE width
        h0 == IF height <= 0 THEN FallbackHeight ELSE height
        rawWidth == Max(w0, MinWidth)
        rawHeight == Max(h0, MinHeight)
        w1 == [w EXCEPT !.m.width = rawWidth, !.m.height = rawHeight]
        rows == availableRows(rawHeight)
        cols == availableCols(rawWidth)
        w2 == IF w1.m.sshTerminalPTY # Nil
              THEN Setsize(w1, w1.m.sshTerminalPTY, rows, cols, ok) ELSE w1
    IN  IF w1.m.sshTerminalPTY # Nil /\ w2.m.sshTerminalEmulator # NoEmulator
        THEN EmulatorResize(w2, cols, rows) ELSE w2

\* One turn of the UI loop: the handler, then View on the model it returned.
Turn(w) == Commit(View(w)) /\ polls' = polls + w.obs.sched

Begin(step) ==
    [World EXCEPT !.obs =
        [FreshObs(step) EXCEPT !.before =
            <<m.sshTerminalActive, m.sshTerminalConfirmExit, m.sshTerminalPTY>>]]

-----------------------------------------------------------------------------
(* The state after initialModel *)

Init ==
    /\ m = [width |-> InitWidth, height |-> InitHeight,
            sshTerminalActive |-> FALSE, sshTerminalConfirmExit |-> FALSE,
            sshTerminalPTY |-> Nil, sshTerminalCmd |-> Nil,
            sshTerminalEmulator |-> NoEmulator, sshTerminalParser |-> FALSE,
            sshTerminalHost |-> Nil, sshTerminalIP |-> Nil,
            selectingSSHIP |-> FALSE, selectedDroplet |-> NoDroplet]
    /\ sshOutputChan = <<>>
    /\ os = [s \in Sessions |-> NoOs]
    /\ reader = [s \in Sessions |-> [pc |-> "idle", n |-> 0]]
    /\ cmds = {}
    /\ inflight = {}
    /\ ticks = 0
    /\ polls = 0
    /\ nextSid = 1
    /\ obs = FreshObs("init")

-----------------------------------------------------------------------------
(* UI loop: one Update call and the View call that follows it *)

\* Update's routing of a key pressed outside the terminal view: the address
\* menu while it is open, else key s on a row of the droplet list
routeKey(w, key, d, s) ==
    IF w.m.selectingSSHIP THEN updateSSHIPSelection(w, key, s)
    ELSE keyS([w EXCEPT !.obs.droplet = d], d, s)

\* a key with Update's check of m.sshTerminalActive left out: the key
\* reaches the droplet list while a terminal view is active
KeyStart_Unrouted(maxSessions, droplets) ==
    \E d \in droplets, key \in (IF m.selectingSSHIP THEN MenuKeys ELSE {"s"}) :
        LET w == routeKey([Begin("start") EXCEPT !.obs.key = key], key, d, nextSid)
            started == w.m.sshTerminalActive
        IN  /\ started => nextSid <= maxSessions
            /\ Turn(w)
            /\ cmds' = IF started THEN cmds \cup {nextSid} ELSE cmds
            /\ nextSid' = IF started THEN nextSid + 1 ELSE nextSid
            /\ UNCHANGED <<reader, inflight, ticks>>

\* key s on a row of the droplet list, or a key in the address menu: Update
\* routes the key there only while no terminal view is active.  The start
\* command is returned when startSSHTerminalView ran.
KeyStart(maxSessions, droplets) ==
    /\ ~m.sshTerminalActive
    /\ \E d \in droplets, key \in (IF m.selectingSSHIP THEN MenuKeys ELSE {"s"}) :
        LET w == routeKey([Begin("start") EXCEPT !.obs.key = key], key, d, nextSid)
            started == w.m.sshTerminalActive
        IN  /\ started => nextSid <= maxSessions
            /\ Turn(w)
            /\ cmds' = IF started THEN cmds \cup {nextSid} ELSE cmds
            /\ nextSid' = IF started THEN nextSid + 1 ELSE nextSid
            /\ UNCHANGED <<reader, inflight, ticks>>

\* case tea.KeyMsg while the terminal view is active
KeyPress(keys) ==
    /\ m.sshTerminalActive
    /\ \E key \in keys, ok \in BOOLEAN :
          Turn(updateSSHTerminal([Begin("key") EXCEPT !.obs.key = key], key, ok))
    /\ UNCHANGED <<reader, cmds, inflight, ticks, nextSid>>

\* case tea.WindowSizeMsg
WindowSize(sizes, outcomes) ==
    /\ \E sz \in sizes, ok \in outcomes :
          Turn(UpdateWindowSize(Begin("resize"), sz[1], sz[2], ok))
    /\ UNCHANGED <<reader, cmds, inflight, ticks, nextSid>>

\* case errMsg, from a command that has nothing to do with the terminal
ApiError ==
    /\ Turn(UpdateErrMsg([Begin("err") EXCEPT !.obs.msg = ApiErrMsg], ApiErrMsg))
    /\ UNCHANGED <<reader, cmds, inflight, ticks, nextSid>>

\* a message of a command reaches Update
Deliver(outcomes) ==
    \E msg \in inflight :
        /\ inflight' = inflight \ {msg}
        /\ LET w == [Begin(msg.type) EXCEPT !.obs.msg = msg]
           IN  \/ /\ msg.type = "started"
                  /\ \E ok \in outcomes : Turn(UpdateStarted(w, msg.sid, ok))
               \/ /\ msg.type = "output"
                  /\ Turn(UpdateOutput(w, msg))
               \/ /\ msg.type = "closed"
                  /\ Turn(UpdateClosed(w))
               \/ /\ msg.type = "err"
                  /\ Turn(UpdateErrMsg(w, msg))
        /\ UNCHANGED <<reader, cmds, ticks, nextSid>>

\* case time.Time: a poll that found the channel empty
DeliverTick ==
    /\ ticks > 0
    /\ ticks' = ticks - 1
    /\ Turn(UpdateTick(Begin("tick")))
    /\ UNCHANGED <<reader, cmds, inflight, nextSid>>

-----------------------------------------------------------------------------
(* Goroutines *)

\* a goroutine step: the UI loop did nothing
Quiet == obs' = FreshObs("go")

\* the command startSSHTerminal returned: pty.StartWithSize, then the reader
\* goroutine is started and sshTerminalStartedMsg returned
RunStart ==
    \E s \in cmds :
        /\ cmds' = cmds \ {s}
        /\ \/ /\ os' = [os EXCEPT ![s].st = "open", ![s].rows = StartRows,
                                  ![s].cols = StartCols]
              /\ reader' = [reader EXCEPT ![s].pc = "read"]
              /\ inflight' = inflight \cup {StartedMsg(s)}
           \/ /\ inflight' = inflight \cup {StartErrMsg(s)}
              /\ UNCHANGED <<os, reader>>
        /\ Quiet
        /\ UNCHANGED <<m, sshOutputChan, ticks, polls, nextSid>>

\* ptmx.Read that returns an error only while the PTY is open: closing the
\* PTY leaves a pending Read blocked
ReaderRead_BlocksClosed ==
    \E s \in Sessions :
        /\ reader[s].pc = "read"
        /\ os[s].st = "open"
        /\ \/ /\ reader[s].n < MaxReads
              /\ reader' = [reader EXCEPT ![s].pc = "sendBytes", ![s].n = @ + 1]
           \/ reader' = [reader EXCEPT ![s].pc = "sendNotice"]
           \/ reader' = [reader EXCEPT ![s].pc = "sendErr"]
        /\ Quiet
        /\ UNCHANGED <<m, sshOutputChan, os, cmds, inflight, ticks, polls, nextSid>>

\* ptmx.Read in the reader: a chunk, io.EOF, or another error
ReaderRead ==
    \E s \in Sessions :
        /\ reader[s].pc = "read"
        /\ \/ /\ os[s].st = "open"
              /\ reader[s].n < MaxReads
              /\ reader' = [reader EXCEPT ![s].pc = "sendBytes", ![s].n = @ + 1]
           \/ /\ os[s].st = "open"
              /\ reader' = [reader EXCEPT ![s].pc = "sendNotice"]
           \/ reader' = [reader EXCEPT ![s].pc = "sendErr"]
        /\ Quiet
        /\ UNCHANGED <<m, sshOutputChan, os, cmds, inflight, ticks, polls, nextSid>>

\* the reader with the return after the send of the error left out: it goes
\* back to ptmx.Read
ReaderSend_NoReturn(cap) ==
    \E s \in Sessions :
        /\ Len(sshOutputChan) < cap
        /\ \/ /\ reader[s].pc = "sendBytes"
              /\ sshOutputChan' = Append(sshOutputChan, OutputMsg(s, reader[s].n))
              /\ reader' = [reader EXCEPT ![s].pc = "read"]
           \/ /\ reader[s].pc = "sendNotice"
              /\ sshOutputChan' = Append(sshOutputChan, OutputMsg(s, 0))
              /\ reader' = [reader EXCEPT ![s].pc = "sendClosed"]
           \/ /\ reader[s].pc = "sendClosed"
              /\ sshOutputChan' = Append(sshOutputChan, ClosedMsg(s))
              /\ reader' = [reader EXCEPT ![s].pc = "done"]
           \/ /\ reader[s].pc = "sendErr"
              /\ sshOutputChan' = Append(sshOutputChan, ReadErrMsg(s))
              /\ reader' = [reader EXCEPT ![s].pc = "read"]
        /\ Quiet
        /\ UNCHANGED <<m, os, cmds, inflight, ticks, polls, nextSid>>

\* outputChan <- msg in the reader: blocks while the channel holds cap messages
ReaderSend(cap) ==
    \E s \in Sessions :
        /\ Len(sshOutputChan) < cap
        /\ \/ /\ reader[s].pc = "sendBytes"
              /\ sshOutputChan' = Append(sshOutputChan, OutputMsg(s, reader[s].n))
              /\ reader' = [reader EXCEPT ![s].pc = "read"]
           \/ /\ reader[s].pc = "sendNotice"
              /\ sshOutputChan' = Append(sshOutputChan, OutputMsg(s, 0))
              /\ reader' = [reader EXCEPT ![s].pc = "sendClosed"]
           \/ /\ reader[s].pc = "sendClosed"
              /\ sshOutputChan' = Append(sshOutputChan, ClosedMsg(s))
              /\ reader' = [reader EXCEPT ![s].pc = "done"]
           \/ /\ reader[s].pc = "sendErr"
              /\ sshOutputChan' = Append(sshOutputChan, ReadErrMsg(s))
              /\ reader' = [reader EXCEPT ![s].pc = "done"]
        /\ Quiet
        /\ UNCHANGED <<m, os, cmds, inflight, ticks, polls, nextSid>>

\* the tick of waitForSSHOutput fires: a non-blocking receive
PollFire ==
    /\ polls > 0
    /\ polls' = polls - 1
    /\ IF Len(sshOutputChan) > 0
       THEN /\ inflight' = inflight \cup {Head(sshOutputChan)}
            /\ sshOutputChan' = Tail(sshOutputChan)
            /\ UNCHANGED ticks
       ELSE /\ ticks' = ticks + 1
            /\ UNCHANGED <<inflight, sshOutputChan>>
    /\ Quiet
    /\ UNCHANGED <<m, os, reader, cmds, nextSid>>

\* maxSessions: sessions the user starts; sizes: window sizes reported;
\* outcomes: what pty.Setsize may answer (TRUE: accepted); keys: keys pressed
\* in the terminal view; droplets: rows key s is pressed on; cap: capacity of
\* sshOutputChan
Next(maxSessions, sizes, outcomes, keys, droplets, cap) ==
    \/ KeyStart(maxSessions, droplets)
    \/ KeyPress(keys)
    \/ WindowSize(sizes, outcomes)
    \/ ApiError
    \/ Deliver(outcomes)
    \/ DeliverTick
    \/ RunStart
    \/ ReaderRead
    \/ ReaderSend(cap)
    \/ PollFire

\* Sessions one after another, the window left at its size.
Spec == Init /\ [][Next(MaxSessions, {<<0, 0>>}, {TRUE}, Keys, OneDroplet, ChanCap)]_vars

\* One session under every window size, the OS free to refuse a size.
SpecGeo == Init /\ [][Next(1, WindowSizes, BOOLEAN, Keys, OneDroplet, ChanCap)]_vars

\* One session, the window left at its size, every key of the table.
SpecKeys == Init /\ [][Next(1, {<<0, 0>>}, {TRUE}, AllKeys, OneDroplet, ChanCap)]_vars

\* One session, key s pressed on every kind of droplet.
SpecDroplet == Init /\ [][Next(1, {<<0, 0>>}, {TRUE}, Keys, Droplets, ChanCap)]_vars

\* One session with the scheduling the runtime gives: a send goes through
\* once the channel has room, a Read on a closed PTY returns, a tick that was
\* armed fires, and a message a command returned reaches Update.  A Read on
\* an open PTY may wait forever, and so may the user.  The channel holds
\* LiveCap messages, as many as one reader still sends after its PTY was
\* closed (the program's channel holds 100).
ReadClosed(s) ==
    ReaderRead /\ os[s].st = "closed" /\ reader'[s] # reader[s]

Fairness ==
    /\ WF_vars(ReaderSend(LiveCap))
    /\ \A s \in Sessions : WF_vars(ReadClosed(s))
    /\ WF_vars(PollFire)
    /\ WF_vars(DeliverTick)
    /\ WF_vars(Deliver({TRUE}))

SpecLive ==
    /\ Init
    /\ [][Next(1, {<<0, 0>>}, {TRUE}, Keys, OneDroplet, LiveCap)]_vars
    /\ Fairness

-----------------------------------------------------------------------------
(* The renderer on its own: every text the emulator may answer, drawn in a   *)
(* terminal view that was just opened.  Here obs holds the text (display)    *)
(* and the displayContent made of it (body).                                 *)

\* the letter a and the line break
DisplayChars == {97, NL}
Displays == UNION {[1..k -> DisplayChars] : k \in 0..MaxDisplay}
\* window heights that give 5 and 6 display rows
FrameHeights == {10, 13}

InitFrame ==
    /\ \E h \in FrameHeights :
          m = startSSHTerminalView(
                  [m |-> [width |-> InitWidth, height |-> h,
                          sshTerminalActive |-> FALSE,
                          sshTerminalConfirmExit |-> FALSE,
                          sshTerminalPTY |-> Nil, sshTerminalCmd |-> Nil,
                          sshTerminalEmulator |-> NoEmulator,
                          sshTerminalParser |-> FALSE,
                          sshTerminalHost |-> Nil, sshTerminalIP |-> Nil,
                          selectingSSHIP |-> FALSE,
                          selectedDroplet |-> NoDroplet]], 1).m
    /\ sshOutputChan = <<>>
    /\ os = [s \in Sessions |-> NoOs]
    /\ reader = [s \in Sessions |-> [pc |-> "idle", n |-> 0]]
    /\ cmds = {1}
    /\ inflight = {}
    /\ ticks = 0
    /\ polls = 0
    /\ nextSid = 2
    /\ \E d \in Displays : obs = [step |-> "display", display |-> d, body |-> <<>>]

\* View -> renderSSHTerminal on the text the emulator answers
RenderFrame ==
    /\ obs.step = "display"
    /\ m.sshTerminalActive /\ ~m.sshTerminalConfirmExit
    /\ m.sshTerminalEmulator # NoEmulator
    /\ obs' = [obs EXCEPT !.step = "frame",
                          !.body = frameBody(obs.display, displayRows(m.height))]
    /\ UNCHANGED <<m, sshOutputChan, os, reader, cmds, inflight, ticks, polls, nextSid>>

SpecFrame == InitFrame /\ [][RenderFrame]_vars

-----------------------------------------------------------------------------
(* Properties *)

Emu == m.sshTerminalEmulator
Spawned(s) == os[s].st # "none"

\* the first j chunks the reader of session s read, in the order read
Chunks(s, j) == [i \in 1..j |-> <<s, i>>]

\* C1: on every exit path of a session whose spawn succeeded, the child is
\* killed and the PTY closed exactly once
\* (judged once the result of the session's start command has reached Update)
C1_ReleasedExactlyOnce ==
    \A s \in Sessions :
        (os[s].exited /\ Spawned(s) /\ StartedMsg(s) \notin inflight)
            => (os[s].kills = 1 /\ os[s].closes = 1)

\* C2: after the started signal and after every resize event processed while
\* a PTY is held, the size last sent to the OS PTY is the size last sent to
\* the engine, the renderer's Resize included
C2_SameSizeSent ==
    (obs.step \in {"started", "resize"} /\ obs.ptySent # <<>> /\ Emu # NoEmulator)
        => obs.ptySent = <<Emu.rows, Emu.cols>>

\* C3: what the engine of the active session was fed is a prefix of what the
\* session's reader read, followed at most by the connection-closed notice
C3_FedIsPrefixOfRead ==
    Emu # NoEmulator =>
        \/ \E j \in 0..reader[Emu.sid].n : Emu.fed = Chunks(Emu.sid, j)
        \/ Emu.fed = Append(Chunks(Emu.sid, reader[Emu.sid].n), <<Emu.sid, 0>>)

\* C4: closeSSHTerminal is idempotent: a second call right after a first
\* kills nothing, closes nothing and leaves the state of the first; with no
\* session and no handle held a call changes nothing but the drained channel
C4_TeardownIdempotent ==
    LET w1 == closeSSHTerminal(World)
        w2 == closeSSHTerminal(w1)
    IN  /\ w2 = w1
        /\ (~m.sshTerminalActive /\ m.sshTerminalPTY = Nil /\ m.sshTerminalCmd = Nil)
              => (w1.m = m /\ w1.os = os)

\* a teardown ran on a model that an earlier teardown had already cleared
C4_Witness ==
    /\ obs.step = "closed"
    /\ obs.tore
    /\ obs.before = <<FALSE, FALSE, Nil>>
    /\ \E s \in Sessions : os[s].kills = 1 /\ os[s].closes = 1

\* C5: confirm-close in ClosingConfirm tears the session down: child killed
\* if running, PTY closed, channel drained, engine and parser released, host,
\* IP and the confirmation flag cleared
C5_ConfirmCloseTearsDown ==
    (obs.step = "key" /\ obs.key = "y" /\ obs.before[2]) =>
        /\ ~m.sshTerminalActive
        /\ sshOutputChan = <<>>
        /\ Emu = NoEmulator /\ ~m.sshTerminalParser
        /\ m.sshTerminalHost = Nil /\ m.sshTerminalIP = Nil
        /\ ~m.sshTerminalConfirmExit
        /\ \A s \in Sessions :
              (os[s].exited /\ Spawned(s)) => (os[s].kills >= 1 /\ os[s].st = "closed")

\* C6: Escape in an Active session writes nothing, leaves process and PTY
\* alone and asks for confirmation; no Escape key ever writes the byte 0x1B
C6_EscapeOnlyAsksToClose ==
    m.sshTerminalActive =>
        \A ok \in BOOLEAN :
            LET w == updateSSHTerminal(Begin("key"), "esc", ok)
            IN  /\ w.obs.wrote = <<>>
                /\ ~w.obs.tore
                /\ w.os = os
                /\ w.chan = sshOutputChan
                /\ ~m.sshTerminalConfirmExit =>
                      w.m = [m EXCEPT !.sshTerminalConfirmExit = TRUE]

\* Escape was pressed in an Active session that holds its PTY
C6_Witness ==
    /\ obs.step = "key" /\ obs.key = "esc"
    /\ obs.before[1] /\ ~obs.before[2] /\ obs.before[3] # Nil
    /\ m.sshTerminalConfirmExit
    /\ m.sshTerminalPTY # Nil

TerminalFrames == {"terminal", "confirm", "connecting"}

\* C8: a Closed or Error event delivered while a session is active tears it
\* down and schedules no poll, and View asks for no terminal frame until a
\* session is started again
C8_ClosedStopsPollAndFrames ==
    /\ [](/\ (obs.step \in {"closed", "err"} /\ obs.msg.k = 0 /\ obs.before[1])
                => (obs.tore /\ obs.sched = 0 /\ ~m.sshTerminalActive)
          /\ ~m.sshTerminalActive => obs.frame.kind \notin TerminalFrames)
    /\ [][(~m.sshTerminalActive /\ m'.sshTerminalActive) => obs'.step = "start"]_vars

\* the reader's Closed event reached Update while its session was active
C8_Witness ==
    /\ obs.step = "closed"
    /\ obs.before[1] /\ obs.before[3] = obs.msg.sid
    /\ obs.tore
    /\ os[obs.msg.sid].closes = 1

\* C9: no terminal frame is rendered while the OS PTY of the session and the
\* engine differ in size
C9_NoFrameWhileSizesDiffer ==
    (obs.frame.kind = "terminal" /\ obs.frame.pty # <<>>)
        => obs.frame.pty = obs.frame.engine

\* C10: the PTY is created at the viewport computed from the current window,
\* the size the engine was given at session start
C10_PtyCreatedAtViewport ==
    [][\A s \in Sessions :
          (os[s].st = "none" /\ os'[s].st = "open") =>
              <<os'[s].rows, os'[s].cols>> =
                  <<availableRows(m.height), availableCols(m.width)>>]_vars

\* C11: every rows and cols value sent to the OS PTY or to the engine, by
\* session start, the started handler, the resize handler or the renderer, is
\* at least the floor (rows >= 5, cols >= 40)
C11_SizesAtLeastFloor ==
    /\ obs.ptySent # <<>> => (obs.ptySent[1] >= MinRows /\ obs.ptySent[2] >= MinCols)
    /\ Emu # NoEmulator => (Emu.rows >= MinRows /\ Emu.cols >= MinCols)
    /\ \A s \in Sessions :
          os[s].st = "open" => (os[s].rows >= MinRows /\ os[s].cols >= MinCols)

\* C12: a session is started only while none is active, every key pressed
\* while one is active goes to the session handler, and the PTY and the
\* process the model holds are one pair
C12_OneSessionAtATime ==
    /\ [](m.sshTerminalPTY = m.sshTerminalCmd)
    /\ [][/\ obs'.step = "start" => ~m.sshTerminalActive
          /\ (m.sshTerminalActive /\ obs'.key # "") => obs'.step = "key"]_vars

\* a second session was started after the first was torn down
C12_Witness ==
    /\ obs.step = "start" /\ obs.key = "s"
    /\ ~obs.before[1]
    /\ m.sshTerminalActive /\ Emu.sid = 2
    /\ os[1].exited

\* C13: once a session was torn down, no write, resize, close or kill is
\* issued on its PTY or its process
C13_NoUseAfterTeardown ==
    [][\A s \in Sessions :
          os[s].exited =>
              /\ os'[s].kills = os[s].kills
              /\ os'[s].closes = os[s].closes
              /\ ~(obs'.wrote # <<>> /\ m.sshTerminalPTY = s)
              /\ ~(obs'.ptySent # <<>> /\ m'.sshTerminalPTY = s)]_vars

\* C14: in an Active session Enter, Backspace, Tab, Space, Ctrl+C, Ctrl+D and
\* Ctrl+Z are written as 0x0D, 0x7F, 0x09, 0x20, 0x03, 0x04 and 0x1A, the i-th
\* Ctrl+letter as the byte i, and a printable rune as its UTF-8 encoding
C14_ControlKeysAndRunes ==
    LET Pressed(key) ==
            /\ obs.step = "key" /\ obs.key = key
            /\ obs.before[1] /\ ~obs.before[2] /\ obs.before[3] # Nil
            /\ obs.err = ""
    IN  /\ Pressed("enter") => obs.wrote = <<13>>
        /\ Pressed("backspace") => obs.wrote = <<127>>
        /\ Pressed("tab") => obs.wrote = <<9>>
        /\ Pressed(" ") => obs.wrote = <<32>>
        /\ Pressed("ctrl+c") => obs.wrote = <<3>>
        /\ Pressed("ctrl+d") => obs.wrote = <<4>>
        /\ Pressed("ctrl+z") => obs.wrote = <<26>>
        /\ \A i \in 1..26 : Pressed(CtrlKeys[i]) => obs.wrote = <<1 + (i - 1)>>
        /\ Pressed("a") => obs.wrote = <<97>>
        /\ Pressed("y") => obs.wrote = <<121>>
        /\ Pressed("U+00E9") => obs.wrote = <<195, 169>>
        /\ Pressed("U+20AC") => obs.wrote = <<226, 130, 172>>
        /\ Pressed("U+1F600") => obs.wrote = <<240, 159, 152, 128>>

\* the euro sign was typed into an Active session and written
C14_Witness ==
    /\ obs.step = "key" /\ obs.key = "U+20AC"
    /\ obs.before[1] /\ ~obs.before[2] /\ obs.before[3] # Nil
    /\ obs.wrote = <<226, 130, 172>>

\* C15: in an Active session the arrows are written as ESC [ A / B / C / D
\* (Up, Down, Right, Left), Delete as ESC [ 3 ~, F1..F4 as ESC O P / Q / R / S
\* and F5..F12 as ESC [ 15~ 17~ 18~ 19~ 20~ 21~ 23~ 24~
C15_ArrowsDeleteFunctionKeys ==
    LET Pressed(key) ==
            /\ obs.step = "key" /\ obs.key = key
            /\ obs.before[1] /\ ~obs.before[2] /\ obs.before[3] # Nil
            /\ obs.err = ""
        ESC == 27
        Final == [i \in 1..4 |-> <<80, 81, 82, 83>>[i]]
        Tilde == [i \in 5..12 |->
                    <<<<49, 53>>, <<49, 55>>, <<49, 56>>, <<49, 57>>,
                      <<50, 48>>, <<50, 49>>, <<50, 51>>, <<50, 52>>>>[i - 4]]
    IN  /\ Pressed("up") => obs.wrote = <<ESC, 91, 65>>
        /\ Pressed("down") => obs.wrote = <<ESC, 91, 66>>
        /\ Pressed("right") => obs.wrote = <<ESC, 91, 67>>
        /\ Pressed("left") => obs.wrote = <<ESC, 91, 68>>
        /\ Pressed("delete") => obs.wrote = <<ESC, 91, 51, 126>>
        /\ \A i \in 1..4 : Pressed(FunctionKeys[i]) => obs.wrote = <<ESC, 79, Final[i]>>
        /\ \A i \in 5..12 :
              Pressed(FunctionKeys[i]) => obs.wrote = <<ESC, 91>> \o Tilde[i] \o <<126>>

\* F11 was pressed in an Active session and written
C15_Witness ==
    /\ obs.step = "key" /\ obs.key = "f11"
    /\ obs.before[1] /\ ~obs.before[2] /\ obs.before[3] # Nil
    /\ obs.wrote = <<27, 91, 50, 51, 126>>

\* C16: in an Active session Home, End, PageUp and PageDown are written as
\* ESC [ H, ESC [ F, ESC [ 5 ~ and ESC [ 6 ~
C16_HomeEndPageKeys ==
    LET Pressed(key) ==
            /\ obs.step = "key" /\ obs.key = key
            /\ obs.before[1] /\ ~obs.before[2] /\ obs.before[3] # Nil
            /\ obs.err = ""
    IN  /\ Pressed("home") => obs.wrote = <<27, 91, 72>>
        /\ Pressed("end") => obs.wrote = <<27, 91, 70>>
        /\ Pressed("pgup") => obs.wrote = <<27, 91, 53, 126>>
        /\ Pressed("pgdown") => obs.wrote = <<27, 91, 54, 126>>

\* C17: a key event without an entry in the encoding table (Shift+Tab,
\* Insert, Ctrl+@, Ctrl+], Alt+x) writes nothing and changes nothing
C17_UnmappedKeyWritesNothing ==
    [][(/\ obs'.step = "key"
        /\ obs'.key \in {"shift+tab", "insert", "ctrl+@", "ctrl+]", "alt+x"}
        /\ m.sshTerminalActive /\ ~m.sshTerminalConfirmExit)
          => (/\ obs'.wrote = <<>>
              /\ m' = m
              /\ os' = os
              /\ sshOutputChan' = sshOutputChan)]_vars

\* C18: a failed write of key bytes tears the session down in the same
\* update (process killed, PTY closed, state cleared), records the cause, and
\* the host goes on to draw its next frame
C18_WriteFailureTearsDown ==
    obs.err = "write" =>
        /\ obs.step = "key" /\ obs.tore /\ obs.wrote = <<>>
        /\ ~m.sshTerminalActive
        /\ m.sshTerminalPTY = Nil /\ m.sshTerminalCmd = Nil
        /\ Emu = NoEmulator /\ ~m.sshTerminalParser
        /\ m.sshTerminalHost = Nil /\ m.sshTerminalIP = Nil
        /\ os[obs.before[3]].st = "closed"
        /\ os[obs.before[3]].kills >= 1
        /\ obs.frame.kind = "other"

\* a key was pressed in an Active session and its write failed
C18_Witness ==
    /\ obs.step = "key" /\ obs.key = "y"
    /\ obs.before[1] /\ ~obs.before[2] /\ obs.before[3] # Nil
    /\ obs.err = "write"
    /\ os[obs.before[3]].closes = 1

\* C19: a session whose spawn failed never holds a PTY, a process or a
\* reader, and once its failure is processed the active flag is false, engine
\* and parser are released, host and IP cleared, no poll is scheduled and the
\* error is recorded
C19_StartFailureLeavesNothing ==
    \A s \in Sessions :
        /\ ~Spawned(s) =>
              (m.sshTerminalPTY # s /\ m.sshTerminalCmd # s /\ reader[s].pc = "idle")
        /\ (obs.step = "err" /\ obs.msg = StartErrMsg(s)) =>
              /\ ~Spawned(s)
              /\ obs.err = "start"
              /\ ~m.sshTerminalActive
              /\ Emu = NoEmulator /\ ~m.sshTerminalParser
              /\ m.sshTerminalHost = Nil /\ m.sshTerminalIP = Nil
              /\ obs.sched = 0
              /\ obs.frame.kind = "other"

\* C20: a size change the OS refuses does not end the session and leaves the
\* OS PTY and the engine at the size they had
C20_RefusedResizeKeepsGeometry ==
    [][(/\ obs'.step = "resize"
        /\ m.sshTerminalPTY # Nil
        /\ obs'.ptySent # <<>>
        /\ OsSize([os |-> os'], m.sshTerminalPTY) # obs'.ptySent)
          => (/\ m'.sshTerminalActive = m.sshTerminalActive
              /\ m'.sshTerminalPTY = m.sshTerminalPTY
              /\ os' = os
              /\ Emu # NoEmulator =>
                    (m'.sshTerminalEmulator.rows = Emu.rows
                        /\ m'.sshTerminalEmulator.cols = Emu.cols))]_vars

Lifecycle(mm) ==
    IF ~mm.sshTerminalActive THEN "Idle"
    ELSE IF mm.sshTerminalConfirmExit THEN "ClosingConfirm"
    ELSE IF mm.sshTerminalPTY = Nil THEN "Starting"
    ELSE "Active"

\* the documented transitions, and the start of a session
Transitions ==
    {<<"Idle", "Starting">>, <<"Starting", "Active">>,
     <<"Active", "ClosingConfirm">>, <<"ClosingConfirm", "Active">>,
     <<"Starting", "Idle">>, <<"Active", "Idle">>, <<"ClosingConfirm", "Idle">>}

\* C23: every change of the session's lifecycle state is a documented
\* transition: Starting -> Active, Active -> ClosingConfirm, ClosingConfirm ->
\* Active, any state -> Closed, Starting/Active -> Failed (or the start of a
\* session); a close-request is accepted only from Active.
C23_DocumentedTransitions ==
    [][Lifecycle(m') # Lifecycle(m) =>
          <<Lifecycle(m), Lifecycle(m')>> \in Transitions]_vars

\* C24: on end-of-stream the reader enqueues the connection-closed notice,
\* then exactly one Closed event, and then nothing more; on any other read
\* error it enqueues exactly one Error event and then nothing more.  Nothing
\* enters the queue but by a send of a reader.
C24_ReaderLastWords ==
    [][/\ \A s \in Sessions :
            LET pc == reader[s].pc
                moved == reader'[s] # reader[s]
            IN  /\ (pc = "sendNotice" /\ moved) =>
                      /\ sshOutputChan' = Append(sshOutputChan, OutputMsg(s, 0))
                      /\ reader'[s].pc = "sendClosed"
                /\ (pc = "sendClosed" /\ moved) =>
                      /\ sshOutputChan' = Append(sshOutputChan, ClosedMsg(s))
                      /\ reader'[s].pc = "done"
                /\ (pc = "sendErr" /\ moved) =>
                      /\ sshOutputChan' = Append(sshOutputChan, ReadErrMsg(s))
                      /\ reader'[s].pc = "done"
                /\ pc = "done" => ~moved
       /\ Len(sshOutputChan') > Len(sshOutputChan) =>
            LET msg == sshOutputChan'[Len(sshOutputChan')]
            IN  /\ sshOutputChan' = Append(sshOutputChan, msg)
                /\ reader[msg.sid].pc =
                      (IF msg.type = "closed" THEN "sendClosed"
                       ELSE IF msg.type = "err" THEN "sendErr"
                       ELSE IF msg.k = 0 THEN "sendNotice" ELSE "sendBytes")
                /\ reader'[msg.sid] # reader[msg.sid]]_vars

C24_Witness ==
    \E s \in Sessions :
        /\ reader[s].pc = "done"
        /\ sshOutputChan = <<ClosedMsg(s)>>
        /\ OutputMsg(s, 0) \in inflight

ReaderMsgs ==
    {OutputMsg(s, k) : s \in Sessions, k \in 0..MaxReads}
        \cup {ClosedMsg(s) : s \in Sessions} \cup {ReadErrMsg(s) : s \in Sessions}

\* the session's view is open and the PTY stored is the session's own
ActiveWithPTY == m.sshTerminalActive /\ Emu.sid # Nil /\ m.sshTerminalPTY = Emu.sid

\* a tick of waitForSSHOutput is armed, or what it answered is on its way to
\* Update
PollChainAlive ==
    polls > 0 \/ ticks > 0 \/ inflight \cap ReaderMsgs # {}

Queued(msg) == \E i \in 1..Len(sshOutputChan) : sshOutputChan[i] = msg

\* C26: while a session is active with its PTY stored (the exit confirmation
\* pending or not) the poll chain never stops: a poll is armed or its outcome
\* is about to re-arm it; and every event in the queue is eventually handed
\* to Update, unless the session ends first.
C26_PollChainNeverStops ==
    /\ [](ActiveWithPTY => PollChainAlive)
    /\ \A msg \in ReaderMsgs :
          (ActiveWithPTY /\ Queued(msg)) ~>
              (\/ obs.step = msg.type /\ obs.msg = msg
               \/ ~m.sshTerminalActive)

\* an empty poll re-armed the chain while the exit confirmation was pending
C26_Witness ==
    /\ ActiveWithPTY /\ m.sshTerminalConfirmExit
    /\ obs.step = "tick" /\ obs.sched = 1
    /\ polls > 0

\* the reader goroutines that have not returned
LiveReaders == {s \in Sessions : reader[s].pc \notin {"idle", "done"}}

\* C27: the output queue is single-producer/single-consumer at all times: at
\* most one reader goroutine can enqueue into it and at most one poll is
\* pending on it.
C27_SingleProducerConsumer ==
    /\ Cardinality(LiveReaders) <= 1
    /\ polls <= 1

\* C28: an event produced by the reader of a session that has been torn
\* down is never applied to a later session: the engine of a session is fed
\* only what that session's reader sent, and a Closed or Error event of a
\* reader tears down only the session of that reader.
C28_NoStaleEventApplied ==
    /\ [](\A i \in 1..Len(Emu.fed) : Emu.fed[i][1] = Emu.sid)
    /\ [][(/\ obs'.step \in {"closed", "err"}
            /\ obs'.msg \in ReaderMsgs
            /\ m.sshTerminalActive /\ obs'.tore)
              => obs'.msg.sid = Emu.sid]_vars

\* C29: an active session is torn down only by confirm-close, by a Closed or
\* Error event of its own reader, by a failed write to its PTY, or by its own
\* spawn failure; an error message of an unrelated operation does not close it.
C29_TeardownOnlyByOwnCause ==
    [][(m.sshTerminalActive /\ ~m'.sshTerminalActive) =>
          \/ obs'.step = "key" /\ obs'.key = "y" /\ m.sshTerminalConfirmExit
          \/ obs'.step = "key" /\ obs'.err = "write"
          \/ /\ obs'.step \in {"closed", "err"}
             /\ obs'.msg \in ReaderMsgs
             /\ obs'.msg.sid = Emu.sid
          \/ obs'.step = "err" /\ obs'.msg = StartErrMsg(Emu.sid)]_vars

\* C30: key bytes are written to the PTY only while the session is Active
\* (its view open, no exit confirmation pending, its own PTY stored by its
\* started signal): while the confirmation is pending no key is written, and
\* a key pressed before the started signal stored the PTY is discarded.
C30_WritesOnlyWhileActive ==
    obs.step = "key" =>
        /\ obs.wrote # <<>> =>
              /\ obs.before[1] /\ ~obs.before[2]
              /\ obs.before[3] # Nil /\ obs.before[3] = Emu.sid
        /\ obs.before[2] => obs.wrote = <<>>
        /\ obs.before[3] = Nil => (obs.wrote = <<>> /\ m.sshTerminalPTY = Nil)

====
